---- MODULE Spec2Model ----
(***************************************************************************)
(* git-memo: per-category memo logs kept as chains of commits, each chain  *)
(* reached through one reference refs/memo/<category> (and, once archived, *)
(* refs/archive/<category>).                                               *)
(*                                                                         *)
(* Every invocation of a command (add, list, edit, remove, archive) is one *)
(* call of the model.  A call is a sequence of steps, one step per access  *)
(* to the shared repository, so that calls of independent processes        *)
(* interleave between their accesses.  The reference store and the object  *)
(* database are the git2 collaborators; each git2 call is one atomic step  *)
(* with the outcome git2 documents for it.                                 *)
(***************************************************************************)
EXTENDS Integers, Sequences, FiniteSets, TLC

VARIABLES
    memo,       \* refs/memo/<category>    -> oid, or NoOid when absent
    archive,    \* refs/archive/<category> -> oid, or NoOid when absent
    odb,        \* the object database: the set of commits written so far
    userName,   \* git config user.name, or NoName when unset
    userEmail,  \* git config user.email, or NoEmail when unset
    clock,      \* the wall clock Signature::now reads
    pc,         \* per call: the place the call has reached
    op,         \* per call: the command ("add", "list", "edit", ...)
    cat,        \* per call: its category argument
    msg,        \* per call: its message argument
    sig,        \* per call: the signature it made
    head,       \* per call: the oid it read from the reference (parent / oid)
    attempt,    \* per call: the loop counter of add_memo
    result,     \* per call: what the call returned
    newOid,     \* per call: the oid it reported as recorded / updated
    listed      \* per call: the memos list_memos printed

vars == <<memo, archive, odb, userName, userEmail, clock, pc, op, cat, msg, sig, head,
          attempt, result, newOid, listed>>

(* ------------------------------ bounds --------------------------------- *)

\* Calls issued in a run of the general specification.
MaxCalls == 3

\* Calls that may be in flight at the same time.
MaxConcurrent == 2

\* The clock ticks at most this many times.
MaxTime == 1

(* --------------------------- program constants ------------------------- *)

\* let max_attempts = 5;
MaxAttempts == 5

\* Calls of the append-only specification: the fewest that let every
\* attempt of one add_memo meet a reference another call has just moved.
AppendCalls == MaxAttempts + 1

\* Calls of the single-user specification: one more than the general one,
\* so that a category is filled, archived or removed, and filled again.
SingleCalls == MaxCalls + 1

\* Calls of the reading specification: a memo is added and listed, and
\* another is added and listed.
ReadCalls == MaxCalls + 1

\* Writers of the parallel specification: as many as add_memo has attempts.
ParallelWriters == MaxAttempts

(* ------------------------------ values --------------------------------- *)

\* An absent reference / an absent parent (Option::None, an empty Vec).
NoOid == <<>>

\* The signature of a call that has made none yet.
NoSig == [name |-> "", email |-> "", when |-> 0]

\* user.name unset.
NoName == "<unset>"

\* user.email unset, and the email the tests configure.
NoEmail == "<unset>"
TestEmail == "test@example.com"

\* Category names are strings of characters, kept as sequences so that
\* validate_category can look at them.
ValidCategories == { <<"a">>, <<"b">> }
Categories == ValidCategories \cup { <<"a", " ">> }

Messages == { "m1", "m2" }

\* The category and the message of the append-only specifications: every
\* writer appends the same payload, the case in which only the parent
\* tells two commits apart.
AppendCategory == <<"a">>
AppendMessages == { "m1" }

(* --------------------------- object database --------------------------- *)

\* The id of a commit is the hash of its content: message, signature and
\* parent id.  The hash is modelled by the injective encoding of exactly
\* those fields, so that equal content gives equal ids and different
\* content different ids.
OidOf(commit) == <<commit.message, commit.author, commit.parent>>

\* repo.find_commit(oid)
HasCommit(oid) == \E c \in odb : OidOf(c) = oid
FindCommit(oid) == CHOOSE c \in odb : OidOf(c) = oid

\* A commit built without its parent.
NewCommitNoParent(message, signature, parent) ==
    [message |-> message, author |-> signature, parent |-> NoOid]

\* The commit add_memo builds: message, signature (author and committer
\* alike) and the parents collected from the Option.
NewCommit(message, signature, parent) ==
    [message |-> message, author |-> signature, parent |-> parent]

\* revwalk with Sort::REVERSE pushed from an oid: the oids from the root
\* to that oid (oldest first).
RECURSIVE RevWalk(_)
RevWalk(oid) ==
    IF oid = NoOid \/ ~HasCommit(oid) THEN <<>>
    ELSE Append(RevWalk(FindCommit(oid).parent), oid)

\* What list_memos prints for a category: (oid, message) from oldest to
\* newest; the empty sequence when the reference is absent.
ListMemos(c) ==
    [i \in 1..Len(RevWalk(memo[c])) |->
        [oid |-> RevWalk(memo[c])[i],
         message |-> FindCommit(RevWalk(memo[c])[i]).message]]

\* A walk without Sort::REVERSE: newest first.
MemosNewestFirst(oid) ==
    [i \in 1..Len(RevWalk(oid)) |->
        [oid |-> RevWalk(oid)[Len(RevWalk(oid)) + 1 - i],
         message |-> FindCommit(RevWalk(oid)[Len(RevWalk(oid)) + 1 - i]).message]]

\* The loop of list_memos over a revwalk pushed from an oid: (oid, message)
\* of every commit the walk yields, oldest first.
Memos(oid) ==
    [i \in 1..Len(RevWalk(oid)) |->
        [oid |-> RevWalk(oid)[i],
         message |-> FindCommit(RevWalk(oid)[i]).message]]

(* ------------------------------ results -------------------------------- *)

\* A call returns Ok(()) after printing a line, or Err(git2::Error): an
\* error code, a message, and the values the message is formatted with.
Ok == [ok |-> TRUE, code |-> "Ok", text |-> "ok", args |-> <<>>]
Absent == [ok |-> TRUE, code |-> "Ok", text |-> "No memos found", args |-> <<>>]
Err(code, text, args) == [ok |-> FALSE, code |-> code, text |-> text, args |-> args]
Pending == [ok |-> FALSE, code |-> "Pending", text |-> "", args |-> <<>>]

\* format!("refs/memo/{category}")
RefName(c) == <<"refs/memo/">> \o c

InvalidCategory(c) == Err("GenericError", "Invalid category name", <<c>>)
MissingIdentity == Err("GenericError", "Git user.name must be set", <<>>)
RetryExhausted(c) ==
    Err("GenericError", "Failed to update after attempts", <<RefName(c), MaxAttempts>>)

\* The errors git2 reports: repo.commit when the reference exists and its
\* tip is not the first parent; commit.amend when the commit is not the tip
\* of the reference; a reference that is gone or has changed since it was
\* looked up.
NotFirstParent == Err("Modified", "current tip is not the first parent", <<>>)
NotTip == Err("GenericError", "commit to amend is not the tip", <<>>)
RefNotFound == Err("NotFound", "reference not found", <<>>)
RefModified == Err("Modified", "old reference value does not match", <<>>)

\* Failures the store may report on its own: a lock file left behind or
\* held by another process, an I/O or permission failure.
StoreFailures == { Err("Locked", "failed to lock file", <<>>),
                   Err("Os", "i/o or permission failure", <<>>) }

\* The error codes add_memo retries on.
ConflictCodes == { "NotFastForward", "Modified", "Locked", "Exists" }

(* ----------------------------- validation ------------------------------ *)

\* validate_category: refs/memo/<name> must be a valid reference name.  Of
\* git's rules the ones the modelled alphabet can break: no empty name, no
\* space.
ValidateCategory(name) ==
    /\ Len(name) > 0
    /\ \A i \in 1..Len(name) : name[i] # " "

Calls == DOMAIN pc
Active == { i \in Calls : pc[i] \notin {"idle", "done"} }

\* Calls are issued in the order of their index.
CanStart(i) ==
    /\ pc[i] = "idle"
    /\ IF i = 1 THEN TRUE ELSE pc[i - 1] # "idle"
    /\ Cardinality(Active) < MaxConcurrent

(* --------------------------- initial states ---------------------------- *)

InitCalls(n) ==
    /\ pc = [i \in 1..n |-> "idle"]
    /\ op = [i \in 1..n |-> "none"]
    /\ cat = [i \in 1..n |-> <<>>]
    /\ msg = [i \in 1..n |-> ""]
    /\ sig = [i \in 1..n |-> NoSig]
    /\ head = [i \in 1..n |-> NoOid]
    /\ attempt = [i \in 1..n |-> 0]
    /\ result = [i \in 1..n |-> Pending]
    /\ newOid = [i \in 1..n |-> NoOid]
    /\ listed = [i \in 1..n |-> <<>>]

InitRepo ==
    /\ memo = [c \in Categories |-> NoOid]
    /\ archive = [c \in Categories |-> NoOid]
    /\ odb = {}
    /\ clock = 0

Init ==
    /\ InitRepo
    /\ userName \in {NoName, "Test"}
    /\ userEmail = TestEmail
    /\ InitCalls(MaxCalls)

\* The append-only specification: an empty repository with user.name set.
InitAppend ==
    /\ InitRepo
    /\ userName = "Test"
    /\ userEmail = TestEmail
    /\ InitCalls(AppendCalls)

(* ------------------------------ the clock ------------------------------ *)

\* Time passes: Signature::now reads a later time.
Tick ==
    /\ clock < MaxTime
    /\ clock' = clock + 1
    /\ UNCHANGED <<memo, archive, odb, userName, userEmail, listed, pc, op, cat, msg, sig,
                   head, attempt, result, newOid>>

\* git config --unset user.name, between two commands.
UnsetUserName ==
    /\ Active = {}
    /\ userName # NoName
    /\ userName' = NoName
    /\ UNCHANGED <<memo, archive, odb, userEmail, clock, listed, pc, op, cat,
                   msg, sig, head, attempt, result, newOid>>

(* ------------------------------ helpers -------------------------------- *)

\* A make_signature that falls back to a default name, as it does for the
\* email.
MakeSignatureDefaultName ==
    [ok |-> TRUE,
     sig |-> [name |-> IF userName = NoName THEN "none" ELSE userName,
              email |-> IF userEmail = NoEmail THEN "none" ELSE userEmail,
              when |-> clock]]

\* make_signature: user.name must be set, an unset user.email becomes
\* "none"; Signature::now stamps the time.
MakeSignature ==
    IF userName = NoName THEN [ok |-> FALSE, sig |-> NoSig]
    ELSE [ok |-> TRUE,
          sig |-> [name |-> userName,
                   email |-> IF userEmail = NoEmail THEN "none" ELSE userEmail,
                   when |-> clock]]

\* A call returns: its result and the oid it printed are kept, and so is
\* the attempt it returned on.
Return(i, r, oid) ==
    /\ pc' = [pc EXCEPT ![i] = "done"]
    /\ result' = [result EXCEPT ![i] = r]
    /\ newOid' = [newOid EXCEPT ![i] = oid]
    /\ head' = [head EXCEPT ![i] = NoOid]
    /\ UNCHANGED attempt

\* A command that goes to the repository with whatever name it was given.
StartNoValidation(i, o, c, m, next) ==
    /\ CanStart(i)
    /\ op' = [op EXCEPT ![i] = o]
    /\ cat' = [cat EXCEPT ![i] = c]
    /\ msg' = [msg EXCEPT ![i] = m]
    /\ next

\* A command starts: validate_category, then open_repo.
Start(i, o, c, m, next) ==
    /\ CanStart(i)
    /\ op' = [op EXCEPT ![i] = o]
    /\ cat' = [cat EXCEPT ![i] = c]
    /\ msg' = [msg EXCEPT ![i] = m]
    /\ IF ~ValidateCategory(c)
       THEN /\ Return(i, InvalidCategory(c), NoOid)
            /\ UNCHANGED sig
       ELSE next

(* ------------------------------ add_memo ------------------------------- *)

\* add_memo up to the retry loop: validation, the signature.
AddStart(i, c, m) ==
    /\ Start(i, "add", c, m,
          IF ~MakeSignature.ok
          THEN /\ Return(i, MissingIdentity, NoOid)
               /\ UNCHANGED sig
          ELSE /\ sig' = [sig EXCEPT ![i] = MakeSignature.sig]
               /\ pc' = [pc EXCEPT ![i] = "add_read"]
               /\ UNCHANGED <<head, result, newOid>>)
    /\ UNCHANGED <<memo, archive, odb, userName, userEmail, listed, clock, attempt>>

\* A loop that makes the signature anew on every attempt.
AddReadHeadNewSignature(i) ==
    /\ pc[i] = "add_read"
    /\ head' = [head EXCEPT ![i] =
                  IF memo[cat[i]] # NoOid /\ HasCommit(memo[cat[i]])
                  THEN memo[cat[i]] ELSE NoOid]
    /\ sig' = [sig EXCEPT ![i] = MakeSignature.sig]
    /\ pc' = [pc EXCEPT ![i] = "add_commit"]
    /\ UNCHANGED <<memo, archive, odb, userName, userEmail, listed, clock, op, cat, msg,
                   attempt, result, newOid>>

\* let parent = repo.refname_to_id(&refname).ok()
\*     .and_then(|oid| repo.find_commit(oid).ok());
AddReadHead(i) ==
    /\ pc[i] = "add_read"
    /\ head' = [head EXCEPT ![i] =
                  IF memo[cat[i]] # NoOid /\ HasCommit(memo[cat[i]])
                  THEN memo[cat[i]] ELSE NoOid]
    /\ pc' = [pc EXCEPT ![i] = "add_commit"]
    /\ UNCHANGED <<memo, archive, odb, userName, userEmail, listed, clock, op, cat, msg, sig,
                   attempt, result, newOid>>

\* A repo.commit that moves the reference without looking at its tip.
CommitAcceptedUnchecked(current, parent) ==
    TRUE

\* repo.commit(Some(&refname), ..., &parents) on the reference's value:
\* when the reference exists its tip must be the first parent; when it
\* does not exist it is created, whatever the parents are.
CommitAccepted(current, parent) ==
    current = NoOid \/ current = parent

\* A match with no retrying arm.
RetryableNever(e, n) ==
    FALSE

\* A retrying arm that also takes failures that are no conflict.
RetryableAnyError(e, n) ==
    n + 1 < MaxAttempts

\* A retrying arm that gives up one attempt early.
RetryableOffByOne(e, n) ==
    e.code \in ConflictCodes /\ n + 2 < MaxAttempts

\* The guard of the retrying match arm.
Retryable(e, n) ==
    e.code \in ConflictCodes /\ n + 1 < MaxAttempts

\* A loop that goes on for as long as the store reports conflicts.
AddFailedUnbounded(i, e) ==
    IF e.code \in ConflictCodes
    THEN /\ attempt' = [attempt EXCEPT ![i] = attempt[i] + 1]
         /\ pc' = [pc EXCEPT ![i] = "add_read"]
         /\ head' = [head EXCEPT ![i] = NoOid]
         /\ UNCHANGED <<result, newOid>>
    ELSE /\ Return(i, e, NoOid)

\* A loop that tries the same commit again without reading the head.
AddFailedNoReread(i, e) ==
    IF Retryable(e, attempt[i])
    THEN /\ attempt' = [attempt EXCEPT ![i] = attempt[i] + 1]
         /\ UNCHANGED <<pc, head, result, newOid>>
    ELSE /\ Return(i, e, NoOid)

\* What add_memo does with an Err(e) of repo.commit on attempt n: continue
\* with the next attempt, or return e; the loop running out returns the
\* error after it.
AddFailed(i, e) ==
    IF Retryable(e, attempt[i])
    THEN IF attempt[i] + 1 < MaxAttempts
         THEN /\ attempt' = [attempt EXCEPT ![i] = attempt[i] + 1]
              /\ pc' = [pc EXCEPT ![i] = "add_read"]
              /\ head' = [head EXCEPT ![i] = NoOid]
              /\ UNCHANGED <<result, newOid>>
         ELSE /\ Return(i, RetryExhausted(cat[i]), NoOid)
    ELSE /\ Return(i, e, NoOid)

\* A commit followed by a forced update of the reference.
AddCommitForced(i) ==
    /\ pc[i] = "add_commit"
    /\ LET c == cat[i]
           commit == NewCommit(msg[i], sig[i], head[i])
       IN /\ odb' = odb \cup {commit}
          /\ memo' = [memo EXCEPT ![c] = OidOf(commit)]
          /\ Return(i, Ok, OidOf(commit))
    /\ UNCHANGED <<archive, userName, userEmail, listed, clock, op, cat, msg, sig>>

\* A commit that moves the reference and does not write the object.
AddCommitReferenceOnly(i) ==
    /\ pc[i] = "add_commit"
    /\ LET c == cat[i]
           commit == NewCommit(msg[i], sig[i], head[i])
       IN IF CommitAccepted(memo[c], head[i])
          THEN /\ memo' = [memo EXCEPT ![c] = OidOf(commit)]
               /\ Return(i, Ok, OidOf(commit))
               /\ UNCHANGED odb
          ELSE /\ AddFailed(i, NotFirstParent)
               /\ UNCHANGED <<memo, odb>>
    /\ UNCHANGED <<archive, userName, userEmail, listed, clock, op, cat, msg, sig>>

\* One repo.commit of the loop, and the match on its result.
AddCommit(i) ==
    /\ pc[i] = "add_commit"
    /\ LET c == cat[i]
           commit == NewCommit(msg[i], sig[i], head[i])
       IN IF CommitAccepted(memo[c], head[i])
          THEN /\ odb' = odb \cup {commit}
               /\ memo' = [memo EXCEPT ![c] = OidOf(commit)]
               /\ Return(i, Ok, OidOf(commit))
          ELSE /\ AddFailed(i, NotFirstParent)
               /\ UNCHANGED <<memo, odb>>
    /\ UNCHANGED <<archive, userName, userEmail, listed, clock, op, cat, msg, sig>>

\* A repo.commit that reports its failure after it has moved the
\* reference.
AddCommitStoreFailureAfterUpdate(i, e, written) ==
    /\ pc[i] = "add_commit"
    /\ e \in StoreFailures
    /\ odb' = odb \cup {NewCommit(msg[i], sig[i], head[i])}
    /\ memo' = [memo EXCEPT ![cat[i]] = OidOf(NewCommit(msg[i], sig[i], head[i]))]
    /\ AddFailed(i, e)
    /\ UNCHANGED <<archive, userName, userEmail, listed, clock, op, cat, msg, sig>>

\* repo.commit failing in the store itself, before or after the commit
\* object was written; the reference is not updated.
AddCommitStoreFailure(i, e, written) ==
    /\ pc[i] = "add_commit"
    /\ e \in StoreFailures
    /\ odb' = IF written THEN odb \cup {NewCommit(msg[i], sig[i], head[i])} ELSE odb
    /\ AddFailed(i, e)
    /\ UNCHANGED <<memo, archive, userName, userEmail, listed, clock, op, cat, msg, sig>>

(* ------------------------------ list_memos ----------------------------- *)

\* A list_memos that goes straight to the revwalk.
ListStartNoCheck(i, c) ==
    /\ Start(i, "list", c, "",
          /\ pc' = [pc EXCEPT ![i] = "list_push"]
          /\ UNCHANGED <<head, result, newOid, sig>>)
    /\ UNCHANGED <<memo, archive, odb, userName, userEmail, listed, clock, attempt>>

\* list_memos up to the revwalk: validation, then repo.refname_to_id (no
\* reference: "No memos found", Ok).
ListStart(i, c) ==
    /\ Start(i, "list", c, "",
          /\ IF memo[c] = NoOid
             THEN Return(i, Absent, NoOid)
             ELSE /\ pc' = [pc EXCEPT ![i] = "list_push"]
                  /\ UNCHANGED <<head, result, newOid>>
          /\ UNCHANGED sig)
    /\ UNCHANGED <<memo, archive, odb, userName, userEmail, listed, clock, attempt>>

\* revwalk.push_ref(&refname)?: the reference is resolved again, and the
\* walk starts from the oid it holds now; a reference that is gone by now
\* is an error.
ListPush(i) ==
    /\ pc[i] = "list_push"
    /\ IF memo[cat[i]] = NoOid
       THEN Return(i, RefNotFound, NoOid)
       ELSE /\ head' = [head EXCEPT ![i] = memo[cat[i]]]
            /\ pc' = [pc EXCEPT ![i] = "list_walk"]
            /\ UNCHANGED <<result, newOid>>
    /\ UNCHANGED <<memo, archive, odb, userName, userEmail, listed, clock, op, cat, msg,
                   sig, attempt>>

\* A walk that resolves the reference when it reaches the end of the chain.
ListWalkFromReference(i) ==
    /\ pc[i] = "list_walk"
    /\ listed' = [listed EXCEPT ![i] = Memos(memo[cat[i]])]
    /\ Return(i, Ok, NoOid)
    /\ UNCHANGED <<memo, archive, odb, userName, userEmail, clock, op, cat, msg, sig>>

\* for oid in revwalk { ... }: the commits reachable from the pushed oid
\* are read from the object database and printed.
ListWalk(i) ==
    /\ pc[i] = "list_walk"
    /\ listed' = [listed EXCEPT ![i] = Memos(head[i])]
    /\ Return(i, Ok, NoOid)
    /\ UNCHANGED <<memo, archive, odb, userName, userEmail, clock, op, cat, msg, sig>>

(* ------------------------------ edit_memo ------------------------------ *)

\* An edit_memo that makes its signature before it looks for the
\* reference.
EditStartSignatureFirst(i, c, m) ==
    /\ Start(i, "edit", c, m,
          IF ~MakeSignature.ok
          THEN /\ Return(i, MissingIdentity, NoOid)
               /\ UNCHANGED sig
          ELSE IF memo[c] = NoOid
          THEN /\ Return(i, Absent, NoOid)
               /\ UNCHANGED sig
          ELSE /\ head' = [head EXCEPT ![i] = memo[c]]
               /\ sig' = [sig EXCEPT ![i] = MakeSignature.sig]
               /\ pc' = [pc EXCEPT ![i] = "edit_amend"]
               /\ UNCHANGED <<result, newOid>>)
    /\ UNCHANGED <<memo, archive, odb, userName, userEmail, listed, clock, attempt>>

\* edit_memo up to commit.amend: validation, then repo.refname_to_id (no
\* reference: nothing to edit), find_commit, commit.tree, make_signature.
EditStart(i, c, m) ==
    /\ Start(i, "edit", c, m,
          IF memo[c] = NoOid
          THEN /\ Return(i, Absent, NoOid)
               /\ UNCHANGED sig
          ELSE IF ~MakeSignature.ok
          THEN /\ Return(i, MissingIdentity, NoOid)
               /\ UNCHANGED sig
          ELSE /\ head' = [head EXCEPT ![i] = memo[c]]
               /\ sig' = [sig EXCEPT ![i] = MakeSignature.sig]
               /\ pc' = [pc EXCEPT ![i] = "edit_amend"]
               /\ UNCHANGED <<result, newOid>>)
    /\ UNCHANGED <<memo, archive, odb, userName, userEmail, listed, clock, attempt>>

\* An amend that puts the new commit on top of the amended one.
AmendedCommitOnTop(old, message, signature) ==
    NewCommit(message, signature, OidOf(old))

\* The commit commit.amend builds: the amended commit's parents, the new
\* message and signature.
AmendedCommit(old, message, signature) ==
    NewCommit(message, signature, old.parent)

\* An amend that moves the reference whatever its tip is.
AmendResultUnchecked(current, oid) ==
    IF current = NoOid THEN RefNotFound ELSE Ok

\* commit.amend(Some(&refname), ...): the reference must exist and the
\* amended commit must be its tip; then the reference moves to the new
\* commit.
AmendResult(current, oid) ==
    IF current = NoOid THEN RefNotFound
    ELSE IF current # oid THEN NotTip
    ELSE Ok

EditAmend(i) ==
    /\ pc[i] = "edit_amend"
    /\ LET c == cat[i]
           commit == AmendedCommit(FindCommit(head[i]), msg[i], sig[i])
           r == AmendResult(memo[c], head[i])
       IN IF r.ok
          THEN /\ odb' = odb \cup {commit}
               /\ memo' = [memo EXCEPT ![c] = OidOf(commit)]
               /\ Return(i, Ok, OidOf(commit))
          ELSE /\ Return(i, r, NoOid)
               /\ UNCHANGED <<memo, odb>>
    /\ UNCHANGED <<archive, userName, userEmail, listed, clock, op, cat, msg, sig>>

(* ----------------------------- remove_memos ---------------------------- *)

\* A remove_memos that passes the failed lookup on with `?`.
RemoveStartStrict(i, c) ==
    /\ Start(i, "remove", c, "",
          /\ IF memo[c] = NoOid
             THEN Return(i, RefNotFound, NoOid)
             ELSE /\ head' = [head EXCEPT ![i] = memo[c]]
                  /\ pc' = [pc EXCEPT ![i] = "remove_delete"]
                  /\ UNCHANGED <<result, newOid>>
          /\ UNCHANGED sig)
    /\ UNCHANGED <<memo, archive, odb, userName, userEmail, listed, clock, attempt>>

\* remove_memos up to reference.delete: validation, then
\* repo.find_reference(&refname).
RemoveStart(i, c) ==
    /\ Start(i, "remove", c, "",
          /\ IF memo[c] = NoOid
             THEN Return(i, Absent, NoOid)
             ELSE /\ head' = [head EXCEPT ![i] = memo[c]]
                  /\ pc' = [pc EXCEPT ![i] = "remove_delete"]
                  /\ UNCHANGED <<result, newOid>>
          /\ UNCHANGED sig)
    /\ UNCHANGED <<memo, archive, odb, userName, userEmail, listed, clock, attempt>>

\* reference.delete(): fails when the reference has changed since it was
\* looked up.
DeleteResult(current, looked) ==
    IF current = NoOid THEN RefNotFound
    ELSE IF current # looked THEN RefModified
    ELSE Ok

\* A delete that also drops the commits of the chain from the object
\* database.
RemoveDeletePrunes(i) ==
    /\ pc[i] = "remove_delete"
    /\ LET r == DeleteResult(memo[cat[i]], head[i])
           chain == RevWalk(memo[cat[i]])
       IN /\ memo' = IF r.ok THEN [memo EXCEPT ![cat[i]] = NoOid] ELSE memo
          /\ odb' = IF r.ok
                    THEN { c \in odb :
                             \A k \in 1..Len(chain) : OidOf(c) # chain[k] }
                    ELSE odb
          /\ Return(i, r, NoOid)
    /\ UNCHANGED <<archive, userName, userEmail, listed, clock, op, cat, msg, sig>>

\* A delete of every reference under refs/memo/.
RemoveDeleteEveryCategory(i) ==
    /\ pc[i] = "remove_delete"
    /\ LET r == DeleteResult(memo[cat[i]], head[i])
       IN /\ memo' = IF r.ok THEN [c \in Categories |-> NoOid] ELSE memo
          /\ Return(i, r, NoOid)
    /\ UNCHANGED <<archive, odb, userName, userEmail, listed, clock, op, cat, msg, sig>>

\* A delete that reports success and leaves the reference in place.
RemoveDeleteKeepsReference(i) ==
    /\ pc[i] = "remove_delete"
    /\ Return(i, DeleteResult(memo[cat[i]], head[i]), NoOid)
    /\ UNCHANGED <<memo, archive, odb, userName, userEmail, listed, clock, op, cat, msg,
                   sig>>

RemoveDelete(i) ==
    /\ pc[i] = "remove_delete"
    /\ LET r == DeleteResult(memo[cat[i]], head[i])
       IN /\ memo' = IF r.ok THEN [memo EXCEPT ![cat[i]] = NoOid] ELSE memo
          /\ Return(i, r, NoOid)
    /\ UNCHANGED <<archive, odb, userName, userEmail, listed, clock, op, cat, msg, sig>>

(* --------------------------- archive_category -------------------------- *)

\* archive_category up to reference.rename: validation, then
\* repo.find_reference(&src).
ArchiveStart(i, c) ==
    /\ Start(i, "archive", c, "",
          /\ IF memo[c] = NoOid
             THEN Return(i, Absent, NoOid)
             ELSE /\ head' = [head EXCEPT ![i] = memo[c]]
                  /\ pc' = [pc EXCEPT ![i] = "archive_rename"]
                  /\ UNCHANGED <<result, newOid>>
          /\ UNCHANGED sig)
    /\ UNCHANGED <<memo, archive, odb, userName, userEmail, listed, clock, attempt>>

\* reference.rename(&dst, true, "archive"): force is true, so an existing
\* destination is overwritten; the source must still exist, and its
\* current value is what moves.
RenameForce == TRUE

RenameResult(source, destination, force) ==
    IF source = NoOid THEN RefNotFound
    ELSE IF destination # NoOid /\ ~force
    THEN Err("Exists", "a reference with that name already exists", <<>>)
    ELSE Ok

\* A rename that copies: the source reference stays.
ArchiveRenameCopies(i) ==
    /\ pc[i] = "archive_rename"
    /\ LET c == cat[i]
           r == RenameResult(memo[c], archive[c], RenameForce)
       IN /\ archive' = IF r.ok THEN [archive EXCEPT ![c] = memo[c]] ELSE archive
          /\ Return(i, r, NoOid)
    /\ UNCHANGED <<memo, odb, userName, userEmail, listed, clock, op, cat, msg, sig>>

ArchiveRename(i) ==
    /\ pc[i] = "archive_rename"
    /\ LET c == cat[i]
           r == RenameResult(memo[c], archive[c], RenameForce)
       IN /\ archive' = IF r.ok THEN [archive EXCEPT ![c] = memo[c]] ELSE archive
          /\ memo' = IF r.ok THEN [memo EXCEPT ![c] = NoOid] ELSE memo
          /\ Return(i, r, NoOid)
    /\ UNCHANGED <<odb, userName, userEmail, listed, clock, op, cat, msg, sig>>

(* ------------------- list_categories, grep_memos ----------------------- *)

\* format!("refs/archive/{category}")
ArchiveRefName(c) == <<"refs/archive/">> \o c

\* The references of the repository, by name.
References ==
    { RefName(c) : c \in { d \in Categories : memo[d] # NoOid } } \cup
    { ArchiveRefName(c) : c \in { d \in Categories : archive[d] # NoOid } }

\* repo.references_glob("<prefix>*")
ReferencesGlob(prefix) == { r \in References : r[1] = prefix }

\* name.strip_prefix(prefix): the rest of the name, or nothing (the empty
\* set stands for None).
StripPrefix(name, prefix) ==
    IF Len(name) >= 1 /\ name[1] = prefix THEN { Tail(name) } ELSE {}

\* The order of String in a BTreeSet: byte by byte, a prefix first.
CharCode(ch) == CASE ch = " " -> 32 [] ch = "a" -> 97 [] ch = "b" -> 98

RECURSIVE StrLess(_, _)
StrLess(x, y) ==
    IF y = <<>> THEN FALSE
    ELSE IF x = <<>> THEN TRUE
    ELSE IF CharCode(Head(x)) # CharCode(Head(y))
    THEN CharCode(Head(x)) < CharCode(Head(y))
    ELSE StrLess(Tail(x), Tail(y))

\* Iterating a BTreeSet: its elements in ascending order.
RECURSIVE BTreeSetIter(_)
BTreeSetIter(set) ==
    IF set = {} THEN <<>>
    ELSE LET least == CHOOSE x \in set : \A y \in set \ {x} : StrLess(x, y)
         IN <<least>> \o BTreeSetIter(set \ {least})

\* What list_categories prints.
ListCategories ==
    BTreeSetIter(UNION { StripPrefix(r, "refs/memo/") :
                         r \in ReferencesGlob("refs/memo/") })

\* A list_archive_categories that globs the live references.
ListArchiveCategoriesOfMemo ==
    BTreeSetIter(UNION { StripPrefix(r, "refs/archive/") :
                         r \in ReferencesGlob("refs/memo/") })

\* What list_archive_categories prints.
ListArchiveCategories ==
    BTreeSetIter(UNION { StripPrefix(r, "refs/archive/") :
                         r \in ReferencesGlob("refs/archive/") })

\* A grep_memos that globs every reference.
GrepRefsEveryReference == References

\* The reference names grep_memos appends to the arguments of git log.
GrepRefs == ReferencesGlob("refs/memo/")

\* grep_memos: "No memos found" and Ok when no name was appended
\* (args.len() == 4), else git log is run on the options and the names.
GrepMemos(pattern) ==
    LET options == <<"log", "--format=%s", "--grep", pattern>>
    IN IF Len(options) + Cardinality(GrepRefs) = 4
       THEN [ok |-> TRUE, text |-> "No memos found", git |-> <<>>]
       ELSE [ok |-> TRUE, text |-> "",
             git |-> << [options |-> options, refs |-> GrepRefs] >>]

(* ----------------------- the commands of main.rs ----------------------- *)

\* A command of main.rs run from start to end with no other process at
\* work: the result it returns and the repository it leaves.
Outcome(r, refs, archived, objects) ==
    [result |-> r, memo |-> refs, archive |-> archived, odb |-> objects]

\* The git2 error for a configuration value that is not set.
ConfigNotFound == Err("NotFound", "config value was not found", <<>>)

\* repo.signature(): user.name and user.email must both be set.
RepoSignature ==
    IF userName = NoName \/ userEmail = NoEmail
    THEN [ok |-> FALSE, sig |-> NoSig]
    ELSE [ok |-> TRUE,
          sig |-> [name |-> userName, email |-> userEmail, when |-> clock]]

\* main.rs add_memo: the signature as in make_signature, the parent read
\* once, one repo.commit.
MainAddMemo(c, m) ==
    IF ~MakeSignature.ok
    THEN Outcome(MissingIdentity, memo, archive, odb)
    ELSE LET parent == IF memo[c] # NoOid /\ HasCommit(memo[c])
                       THEN memo[c] ELSE NoOid
             commit == NewCommit(m, MakeSignature.sig, parent)
         IN IF CommitAccepted(memo[c], parent)
            THEN Outcome(Ok, [memo EXCEPT ![c] = OidOf(commit)], archive,
                         odb \cup {commit})
            ELSE Outcome(NotFirstParent, memo, archive, odb)

\* main.rs edit_memo: as in commands.rs, with repo.signature() for the
\* signature.
MainEditMemo(c, m) ==
    IF memo[c] = NoOid THEN Outcome(Absent, memo, archive, odb)
    ELSE IF ~RepoSignature.ok
    THEN Outcome(ConfigNotFound, memo, archive, odb)
    ELSE LET commit == AmendedCommit(FindCommit(memo[c]), m, RepoSignature.sig)
             r == AmendResult(memo[c], memo[c])
         IN IF r.ok
            THEN Outcome(Ok, [memo EXCEPT ![c] = OidOf(commit)], archive,
                         odb \cup {commit})
            ELSE Outcome(r, memo, archive, odb)

\* main.rs remove_memos
MainRemoveMemos(c) ==
    IF memo[c] = NoOid THEN Outcome(Absent, memo, archive, odb)
    ELSE LET r == DeleteResult(memo[c], memo[c])
         IN Outcome(r, IF r.ok THEN [memo EXCEPT ![c] = NoOid] ELSE memo,
                    archive, odb)

\* main.rs archive_category
MainArchiveCategory(c) ==
    IF memo[c] = NoOid THEN Outcome(Absent, memo, archive, odb)
    ELSE LET r == RenameResult(memo[c], archive[c], RenameForce)
         IN Outcome(r, IF r.ok THEN [memo EXCEPT ![c] = NoOid] ELSE memo,
                    IF r.ok THEN [archive EXCEPT ![c] = memo[c]] ELSE archive,
                    odb)

\* The match of main on the subcommand.
MainCommand(o, c, m) ==
    CASE o = "add" -> MainAddMemo(c, m)
      [] o = "edit" -> MainEditMemo(c, m)
      [] o = "remove" -> MainRemoveMemos(c)
      [] o = "archive" -> MainArchiveCategory(c)

(* --------------------------- specifications ---------------------------- *)

Next ==
    \/ \E i \in Calls, c \in Categories, m \in Messages : AddStart(i, c, m)
    \/ \E i \in Calls : AddReadHead(i)
    \/ \E i \in Calls : AddCommit(i)
    \/ \E i \in Calls, c \in Categories : ListStart(i, c)
    \/ \E i \in Calls : ListPush(i)
    \/ \E i \in Calls : ListWalk(i)
    \/ \E i \in Calls, c \in Categories, m \in Messages : EditStart(i, c, m)
    \/ \E i \in Calls : EditAmend(i)
    \/ \E i \in Calls, c \in Categories : RemoveStart(i, c)
    \/ \E i \in Calls : RemoveDelete(i)
    \/ \E i \in Calls, c \in Categories : ArchiveStart(i, c)
    \/ \E i \in Calls : ArchiveRename(i)

Spec == Init /\ [][Next]_vars

\* Appends only, all to one category, by a configured user, no failure of
\* the store.
NextAppend ==
    \/ \E i \in Calls, m \in AppendMessages : AddStart(i, AppendCategory, m)
    \/ \E i \in Calls : AddReadHead(i)
    \/ \E i \in Calls : AddCommit(i)

SpecAppend == InitAppend /\ [][NextAppend]_vars

\* A command runs to completion in its process: a call that has started
\* keeps taking its steps.
SpecAppendFair ==
    /\ SpecAppend
    /\ \A i \in 1..AppendCalls : WF_vars(AddReadHead(i) \/ AddCommit(i))

\* Appends to one category over a store that may fail.
InitFaulty ==
    /\ InitRepo
    /\ userName = "Test"
    /\ userEmail = TestEmail
    /\ InitCalls(MaxCalls)

NextFaulty ==
    \/ \E i \in Calls, m \in AppendMessages : AddStart(i, AppendCategory, m)
    \/ \E i \in Calls : AddReadHead(i)
    \/ \E i \in Calls : AddCommit(i)
    \/ \E i \in Calls, e \in StoreFailures, w \in BOOLEAN :
          AddCommitStoreFailure(i, e, w)

SpecFaulty == InitFaulty /\ [][NextFaulty]_vars

\* A single writer: a call starts only when no call is in flight; time
\* passes between and during the calls.
NextSequential ==
    \/ Tick
    \/ /\ Active = {}
       /\ \E i \in Calls, m \in Messages : AddStart(i, AppendCategory, m)
    \/ \E i \in Calls : AddReadHead(i)
    \/ \E i \in Calls : AddCommit(i)

SpecSequential == InitAppend /\ [][NextSequential]_vars

\* A single user on one category: the commands run one after another, as
\* in a shell session, and the user may unset user.name between two of
\* them.
InitSingle ==
    /\ InitRepo
    /\ userName = "Test"
    /\ userEmail = TestEmail
    /\ InitCalls(SingleCalls)

NextSingle ==
    \/ UnsetUserName
    \/ /\ Active = {}
       /\ \E i \in Calls, m \in Messages : AddStart(i, AppendCategory, m)
    \/ \E i \in Calls : AddReadHead(i)
    \/ \E i \in Calls : AddCommit(i)
    \/ /\ Active = {}
       /\ \E i \in Calls : ListStart(i, AppendCategory)
    \/ \E i \in Calls : ListPush(i)
    \/ \E i \in Calls : ListWalk(i)
    \/ /\ Active = {}
       /\ \E i \in Calls, m \in Messages : EditStart(i, AppendCategory, m)
    \/ \E i \in Calls : EditAmend(i)
    \/ /\ Active = {}
       /\ \E i \in Calls : RemoveStart(i, AppendCategory)
    \/ \E i \in Calls : RemoveDelete(i)
    \/ /\ Active = {}
       /\ \E i \in Calls : ArchiveStart(i, AppendCategory)
    \/ \E i \in Calls : ArchiveRename(i)

SpecSingle == InitSingle /\ [][NextSingle]_vars

\* Adds that may fail in every way add_memo can fail: an invalid category,
\* user.name unset, a failure of the store, conflicts with other adds.
ErrorCategories == {AppendCategory} \cup (Categories \ ValidCategories)

NextErrors ==
    \/ \E i \in Calls, c \in ErrorCategories, m \in AppendMessages :
          AddStart(i, c, m)
    \/ \E i \in Calls : AddReadHead(i)
    \/ \E i \in Calls : AddCommit(i)
    \/ \E i \in Calls, e \in StoreFailures, w \in BOOLEAN :
          AddCommitStoreFailure(i, e, w)

SpecErrors == Init /\ [][NextErrors]_vars

\* Adds and lists on one category, by a configured user, in any
\* interleaving.
InitRead ==
    /\ InitRepo
    /\ userName = "Test"
    /\ userEmail = TestEmail
    /\ InitCalls(ReadCalls)

NextRead ==
    \/ \E i \in Calls, m \in AppendMessages : AddStart(i, AppendCategory, m)
    \/ \E i \in Calls : AddReadHead(i)
    \/ \E i \in Calls : AddCommit(i)
    \/ \E i \in Calls : ListStart(i, AppendCategory)
    \/ \E i \in Calls : ListPush(i)
    \/ \E i \in Calls : ListWalk(i)

SpecRead == InitRead /\ [][NextRead]_vars

\* As many adds as add_memo has attempts, all in flight at once: every
\* process has validated its category and made its signature, and none has
\* read the reference yet.
InitParallel ==
    /\ InitRepo
    /\ userName = "Test"
    /\ userEmail = TestEmail
    /\ pc = [i \in 1..ParallelWriters |-> "add_read"]
    /\ op = [i \in 1..ParallelWriters |-> "add"]
    /\ cat = [i \in 1..ParallelWriters |-> AppendCategory]
    /\ msg = [i \in 1..ParallelWriters |-> "m1"]
    /\ sig = [i \in 1..ParallelWriters |->
                [name |-> userName, email |-> userEmail, when |-> clock]]
    /\ head = [i \in 1..ParallelWriters |-> NoOid]
    /\ attempt = [i \in 1..ParallelWriters |-> 0]
    /\ result = [i \in 1..ParallelWriters |-> Pending]
    /\ newOid = [i \in 1..ParallelWriters |-> NoOid]
    /\ listed = [i \in 1..ParallelWriters |-> <<>>]

NextParallel ==
    \/ \E i \in Calls : AddReadHead(i)
    \/ \E i \in Calls : AddCommit(i)

SpecParallel == InitParallel /\ [][NextParallel]_vars

\* A single writer over a store that may fail, while time passes: the
\* attempts of one add_memo are made at different times.
NextClockFaulty ==
    \/ Tick
    \/ /\ Active = {}
       /\ \E i \in Calls, m \in AppendMessages : AddStart(i, AppendCategory, m)
    \/ \E i \in Calls : AddReadHead(i)
    \/ \E i \in Calls : AddCommit(i)
    \/ \E i \in Calls, e \in StoreFailures, w \in BOOLEAN :
          AddCommitStoreFailure(i, e, w)

SpecClockFaulty == InitFaulty /\ [][NextClockFaulty]_vars

\* A single writer with user.name set and user.email set or not, on one
\* category: add, edit, remove and archive, one after another.
InitWriter ==
    /\ InitRepo
    /\ userName = "Test"
    /\ userEmail \in {NoEmail, TestEmail}
    /\ InitCalls(SingleCalls)

NextWriter ==
    \/ /\ Active = {}
       /\ \E i \in Calls, m \in Messages : AddStart(i, AppendCategory, m)
    \/ \E i \in Calls : AddReadHead(i)
    \/ \E i \in Calls : AddCommit(i)
    \/ /\ Active = {}
       /\ \E i \in Calls, m \in Messages : EditStart(i, AppendCategory, m)
    \/ \E i \in Calls : EditAmend(i)
    \/ /\ Active = {}
       /\ \E i \in Calls : RemoveStart(i, AppendCategory)
    \/ \E i \in Calls : RemoveDelete(i)
    \/ /\ Active = {}
       /\ \E i \in Calls : ArchiveStart(i, AppendCategory)
    \/ \E i \in Calls : ArchiveRename(i)

SpecWriter == InitWriter /\ [][NextWriter]_vars

(* ------------------------------- claims -------------------------------- *)

Started == { i \in Calls : pc[i] # "idle" }
Returned == { i \in Calls : pc[i] = "done" }
Oids(log) == { log[j].oid : j \in 1..Len(log) }

\* C1: under every interleaving of k writers that each append one record to
\* the same category, once all k appends have returned successfully the
\* listing of the category holds exactly k records, one per writer, with k
\* distinct oids.
C1_NoLostAppend ==
    (Started = Returned /\ \A i \in Started : result[i].ok) =>
        LET log == ListMemos(AppendCategory)
        IN /\ Len(log) = Cardinality(Started)
           /\ Oids(log) = { newOid[i] : i \in Started }
           /\ Cardinality(Oids(log)) = Cardinality(Started)

\* Three writers have all returned successfully and one of them had to
\* retry because another moved the reference first.
C1_Witness ==
    /\ Cardinality(Started) >= 3
    /\ Started = Returned
    /\ \A i \in Started : result[i].ok
    /\ \E i \in Started : attempt[i] > 0

\* C2: payloads appended one after another by a single writer are listed in
\* the order appended, the first commit has no parent and every later one
\* has the commit listed before it as its parent.
C2_SequentialOrder ==
    Active = {} =>
        LET log == ListMemos(AppendCategory)
        IN /\ Len(log) = Cardinality(Started)
           /\ \A j \in 1..Len(log) :
                /\ log[j].message = msg[j]
                /\ log[j].oid = newOid[j]
                /\ FindCommit(log[j].oid).parent =
                       IF j = 1 THEN NoOid ELSE log[j - 1].oid

\* Three payloads, not all the same, have been appended in sequence.
C2_Witness ==
    /\ Active = {}
    /\ Cardinality(Started) >= 3
    /\ msg[1] # msg[2]
    /\ msg[2] = msg[3]
    /\ Len(ListMemos(AppendCategory)) = 3

\* Call i takes a step: only its own steps change its locals.
Moved(i) ==
    <<pc[i], head[i], attempt[i], result[i], newOid[i]>>' #
        <<pc[i], head[i], attempt[i], result[i], newOid[i]>>

\* Call i takes the step that is one repo.commit of add_memo.
AddCommitStep(i) == pc[i] = "add_commit" /\ Moved(i)
AddSucceeds(i) == AddCommitStep(i) /\ pc'[i] = "done" /\ result'[i].ok

\* C3: every successful append commits a node whose parent is the value
\* the reference held when the update succeeded (no parent exactly when the
\* reference was absent), whatever add, edit, remove and archive calls run
\* beside it.
C3_ParentIsPointerAtCommit ==
    [][\A i \in Calls :
         AddSucceeds(i) =>
            (FindCommit(newOid[i]).parent)' = memo[cat[i]]]_vars

\* C4: an append whose reference was moved by another writer between its
\* read and its repo.commit fails that attempt with a conflict, leaves the
\* reference alone and reads the head again; an append whose reference is
\* still the head it read succeeds, and the chain is then the chain the
\* other writer left plus its own commit on top.
C4_RetryAfterConflict ==
    [][\A i \in Calls :
         AddCommitStep(i) =>
            IF memo[cat[i]] # head[i]
            THEN attempt[i] + 1 < MaxAttempts =>
                    /\ pc'[i] = "add_read"
                    /\ attempt'[i] = attempt[i] + 1
                    /\ memo' = memo
            ELSE /\ pc'[i] = "done"
                 /\ result'[i].ok
                 /\ (FindCommit(newOid[i]).parent)' = memo[cat[i]]
                 /\ RevWalk(memo[cat[i]])' =
                        Append(RevWalk(memo[cat[i]]), newOid'[i])]_vars

\* A writer has succeeded on its second attempt, and its commit sits on
\* top of the commit of the writer that made its first attempt fail.
C4_Witness ==
    \E i, j \in Returned :
        /\ i # j
        /\ result[i].ok /\ result[j].ok
        /\ attempt[i] = 1
        /\ attempt[j] = 0
        /\ FindCommit(newOid[i]).parent = newOid[j]
        /\ memo[cat[i]] = newOid[i]

\* C5: an append whose every attempt up to the ceiling failed with a
\* conflict returns the exhaustion error naming the reference and the
\* number of attempts, and no other error.  With no failure but conflicts
\* possible, that is the only error an append may return.
C5_ExhaustionError ==
    \A i \in Returned :
        ~result[i].ok => result[i] = RetryExhausted(cat[i])

\* The steps call i has taken in the loop of add_memo: two per finished
\* attempt, one more once the head is read.
LoopSteps(i) ==
    2 * attempt[i] + (IF pc[i] \in {"add_commit", "done"} THEN 1 ELSE 0)
                   + (IF pc[i] = "done" THEN 1 ELSE 0)

\* C6: an append makes at most 5 attempts and then returns, whatever the
\* other calls do and however the store fails: its attempt counter stays
\* below the ceiling and every step it takes moves it on towards the end
\* of its last attempt.
C6_BoundedAttempts ==
    /\ [](\A i \in Calls :
            /\ attempt[i] < MaxAttempts
            /\ LoopSteps(i) <= 2 * MaxAttempts)
    /\ [][\A i \in Calls :
            (pc[i] \in {"add_read", "add_commit"} /\ Moved(i)) =>
                LoopSteps(i)' > LoopSteps(i)]_vars

\* An append has used all five attempts and returned.
C6_Witness ==
    \E i \in Returned : op[i] = "add" /\ attempt[i] = MaxAttempts - 1

\* C7: when the store fails an attempt of append with a failure that is no
\* conflict, append returns that very failure on that attempt, whichever
\* attempt it is, and makes no further attempt.
C7_StoreFailureNotRetried ==
    [][\A i \in Calls, e \in StoreFailures, w \in BOOLEAN :
         (e.code \notin ConflictCodes /\ AddCommitStoreFailure(i, e, w)) =>
            /\ pc'[i] = "done"
            /\ result'[i] = e
            /\ attempt'[i] = attempt[i]
            /\ memo' = memo]_vars

\* An append has returned the store's failure on a later attempt than its
\* first.
C7_Witness ==
    \E i \in Returned :
        /\ op[i] = "add"
        /\ result[i].code = "Os"
        /\ attempt[i] > 0
        /\ attempt[i] < MaxAttempts - 1

\* C8 as stated: however many appends are issued on the category, each of
\* them succeeds.
C8_EveryAppendSucceeds ==
    \A i \in Returned : result[i].ok

\* When no more appends are issued than the retry ceiling, each one that
\* has returned has succeeded and its commit is in the chain of the
\* reference, right after the commit the reference held when its update
\* succeeded.
AppendsLinked ==
    Cardinality(Started) <= MaxAttempts =>
        \A i \in Returned :
            /\ result[i].ok
            /\ LET log == RevWalk(memo[cat[i]])
                   parent == FindCommit(newOid[i]).parent
               IN \E j \in 1..Len(log) :
                    /\ log[j] = newOid[i]
                    /\ parent = IF j = 1 THEN NoOid ELSE log[j - 1]

\* C8, amended: every append that has started returns; and when no more
\* appends are issued on the category than the retry ceiling, each of them
\* succeeds, and the commit of each that has returned is in the chain of
\* the reference, right after the commit the reference held when its
\* update succeeded.
C8_AppendsWithinCeilingSucceed ==
    /\ []AppendsLinked
    /\ \A i \in 1..AppendCalls : (pc[i] = "add_read") ~> (pc[i] = "done")

\* Five appends have returned, one of them on its last attempt, after
\* each of the other four made one of its attempts fail.
C8_Witness ==
    /\ Cardinality(Returned) = MaxAttempts
    /\ Started = Returned
    /\ \E i \in Returned : attempt[i] = MaxAttempts - 1 /\ result[i].ok

\* Call i takes the commit.amend step of edit_memo.
AmendStep(i) == pc[i] = "edit_amend" /\ Moved(i)

\* C9: edit_memo tries to move the reference once: the step after its
\* read ends the call, and when the reference no longer holds the commit
\* it read, the call fails, the reference stays as it is and every record
\* of its chain, a concurrently appended one included, is still listed.
C9_AmendSingleAttempt ==
    [][\A i \in Calls :
         AmendStep(i) =>
            /\ pc'[i] = "done"
            /\ memo[cat[i]] # head[i] =>
                  /\ ~result'[i].ok
                  /\ result'[i] \in {NotTip, RefNotFound}
                  /\ memo' = memo
                  /\ ListMemos(cat[i])' = ListMemos(cat[i])]_vars

\* An edit has failed because an append moved the reference after the
\* edit read it: the appended commit is the head, on top of a commit that
\* is still in the chain.
C9_Witness ==
    \E i, j \in Returned :
        /\ op[i] = "edit" /\ result[i] = NotTip
        /\ op[j] = "add" /\ result[j].ok
        /\ cat[i] = cat[j]
        /\ memo[cat[j]] = newOid[j]
        /\ Len(RevWalk(memo[cat[j]])) = 2

\* C10: a successful edit of a category whose head is H moves the
\* reference to a new commit with H's parent and the new message: the
\* listing keeps its length and all its records but the last, which now
\* carries the new message.
C10_AmendReplacesHead ==
    [][\A i \in Calls :
         (AmendStep(i) /\ result'[i].ok) =>
            LET before == ListMemos(cat[i])
                after == ListMemos(cat[i])'
                n == Len(before)
            IN /\ memo[cat[i]] = head[i]
               /\ memo'[cat[i]] = newOid'[i]
               /\ (FindCommit(newOid[i]).parent)' = FindCommit(head[i]).parent
               /\ (FindCommit(newOid[i]).message)' = msg[i]
               /\ Len(after) = n
               /\ n >= 1
               /\ \A k \in 1..(n - 1) : after[k] = before[k]
               /\ after[n].message = msg[i]]_vars

\* An edit has replaced the head of a chain of two commits with a commit
\* carrying another message.
C10_Witness ==
    \E i \in Returned :
        /\ op[i] = "edit" /\ result[i].ok /\ newOid[i] # NoOid
        /\ memo[cat[i]] = newOid[i]
        /\ Len(ListMemos(cat[i])) = 2
        /\ ListMemos(cat[i])[1].message # msg[i]
        /\ ListMemos(cat[i])[2].message = msg[i]

\* A call starts: its first step, which validates the category and makes
\* the command's first access to the repository.
StartStep(i) == pc[i] = "idle" /\ pc'[i] # "idle"

\* C11: edit on a category whose reference is absent returns success with
\* the "No memos found" outcome, whether or not user.name is set; it
\* creates no reference and writes no commit.
C11_AmendAbsentIsNoop ==
    [][\A i \in Calls :
         (StartStep(i) /\ op'[i] = "edit" /\ ValidateCategory(cat'[i])
            /\ memo[cat'[i]] = NoOid) =>
           /\ pc'[i] = "done"
           /\ result'[i].ok
           /\ result'[i].text = "No memos found"
           /\ newOid'[i] = NoOid
           /\ memo' = memo /\ archive' = archive /\ odb' = odb]_vars

\* An edit of an absent category has returned its no-op, by a user with no
\* user.name.
C11_Witness ==
    \E i \in Calls :
        /\ op[i] = "edit" /\ pc[i] = "done" /\ result[i] = Absent
        /\ userName = NoName

ArchiveStep(i) == pc[i] = "archive_rename" /\ Moved(i)

\* C12: when the rename of archive succeeds, refs/memo/<category> is absent
\* afterwards and refs/archive/<category> holds the oid the live reference
\* held, so the walk from the archive reference gives exactly the memos the
\* listing of the category gave before.
C12_ArchiveMovesLog ==
    [][\A i \in Calls :
         (ArchiveStep(i) /\ result'[i].ok) =>
           /\ memo[cat[i]] # NoOid
           /\ memo'[cat[i]] = NoOid
           /\ ListMemos(cat[i])' = <<>>
           /\ archive'[cat[i]] = memo[cat[i]]
           /\ Memos(archive[cat[i]])' = ListMemos(cat[i])]_vars

\* A category of two memos has been archived.
C12_Witness ==
    \E i \in Calls :
        /\ op[i] = "archive" /\ pc[i] = "done" /\ result[i] = Ok
        /\ memo[cat[i]] = NoOid
        /\ Len(Memos(archive[cat[i]])) = 2

\* C13: archive renames without overwriting: when refs/archive/<category>
\* already exists, the rename fails with the "Exists" error and both
\* references keep their values.
C13_ArchiveNeverOverwrites ==
    [][\A i \in Calls :
         (ArchiveStep(i) /\ archive[cat[i]] # NoOid) =>
           /\ ~result'[i].ok
           /\ result'[i].code = "Exists"
           /\ memo' = memo /\ archive' = archive]_vars

\* C14: archive and remove on a category whose live reference is absent
\* return success with the "No memos found" outcome and change no live
\* and no archive reference.
C14_AbsentIsNoop ==
    [][\A i \in Calls :
         (StartStep(i) /\ op'[i] \in {"archive", "remove"}
            /\ ValidateCategory(cat'[i]) /\ memo[cat'[i]] = NoOid) =>
           /\ pc'[i] = "done"
           /\ result'[i].ok
           /\ result'[i].text = "No memos found"
           /\ memo' = memo /\ archive' = archive]_vars

\* An archive and a remove have both returned their no-op while another
\* category has memos.
C14_Witness ==
    /\ \E i \in Calls : op[i] = "archive" /\ pc[i] = "done" /\ result[i] = Absent
    /\ \E i \in Calls : op[i] = "remove" /\ pc[i] = "done" /\ result[i] = Absent
    /\ \E c \in Categories : memo[c] # NoOid

\* The call issued last.
Last == CHOOSE i \in Started : \A j \in Started : j <= i

\* C15: when a remove has completed and the next command, an add on the
\* same category, has completed too, the commit of the add has no parent
\* and the listing of the category is exactly that one memo, whatever the
\* removed chain held.
C15_FreshChainAfterRemove ==
    \A i \in Returned :
        (/\ i > 1 /\ i = Last
         /\ op[i] = "add" /\ result[i].ok
         /\ op[i - 1] = "remove" /\ result[i - 1] = Ok
         /\ cat[i - 1] = cat[i]) =>
           /\ FindCommit(newOid[i]).parent = NoOid
           /\ ListMemos(cat[i]) = <<[oid |-> newOid[i], message |-> msg[i]]>>

\* Two memos were added, the category was removed, and a third memo was
\* added.
C15_Witness ==
    /\ Returned = 1..4
    /\ op[1] = "add" /\ op[2] = "add" /\ result[1].ok /\ result[2].ok
    /\ newOid[1] # newOid[2]
    /\ op[3] = "remove" /\ result[3] = Ok
    /\ op[4] = "add" /\ result[4].ok

\* C16: add, list, edit, archive and remove called with an invalid
\* category name fail with the "Invalid category name" error in their
\* first step, whatever the repository and user.name are: nothing is read
\* from a reference, no commit is written, no reference is created, changed
\* or deleted, and nothing is listed.
C16_InvalidCategoryRejectedFirst ==
    [][\A i \in Calls :
         (StartStep(i) /\ ~ValidateCategory(cat'[i])) =>
           /\ op'[i] \in {"add", "list", "edit", "archive", "remove"}
           /\ pc'[i] = "done"
           /\ result'[i] = InvalidCategory(cat'[i])
           /\ head'[i] = NoOid /\ newOid'[i] = NoOid
           /\ memo' = memo /\ archive' = archive /\ odb' = odb
           /\ listed' = listed]_vars

\* Three different commands have been rejected for their category name.
C16_Witness ==
    /\ \A i \in Calls : pc[i] = "done" /\ result[i] = InvalidCategory(cat[i])
    /\ Cardinality({ op[i] : i \in Calls }) = Cardinality(Calls)
    /\ \E i \in Calls : op[i] = "list"

\* C17: with user.name unset, add fails with the "user.name must be set"
\* error, and so does edit on a category whose reference exists; neither
\* creates or changes a reference or writes a commit.
C17_MissingIdentityBeforeMutation ==
    [][\A i \in Calls :
         (/\ StartStep(i) /\ userName = NoName /\ ValidateCategory(cat'[i])
          /\ \/ op'[i] = "add"
             \/ op'[i] = "edit" /\ memo[cat'[i]] # NoOid) =>
           /\ pc'[i] = "done"
           /\ result'[i] = MissingIdentity
           /\ memo' = memo /\ archive' = archive /\ odb' = odb]_vars

\* After user.name was unset, an add and an edit of a category that has a
\* memo have both failed.
C17_Witness ==
    /\ \E i \in Calls : op[i] = "add" /\ result[i] = MissingIdentity
    /\ \E i \in Calls :
          /\ op[i] = "edit" /\ result[i] = MissingIdentity
          /\ memo[cat[i]] # NoOid

\* C18: list on a category whose reference is absent returns success with
\* the "No memos found" outcome and lists nothing; a list that found the
\* reference returns a different outcome, with at least one memo.
C18_ListAbsentIsDistinguished ==
    /\ [][\A i \in Calls :
            (StartStep(i) /\ op'[i] = "list" /\ ValidateCategory(cat'[i])
               /\ memo[cat'[i]] = NoOid) =>
              /\ pc'[i] = "done"
              /\ result'[i].ok
              /\ result'[i].text = "No memos found"
              /\ listed'[i] = <<>>
              /\ memo' = memo /\ archive' = archive /\ odb' = odb]_vars
    /\ [](\A i \in Returned :
            (op[i] = "list" /\ result[i].ok /\ result[i].text # "No memos found")
               => listed[i] # <<>>)

\* One list has reported that there are no memos, another has listed a
\* memo.
C18_Witness ==
    /\ \E i \in Returned : op[i] = "list" /\ result[i] = Absent /\ listed[i] = <<>>
    /\ \E i \in Returned : op[i] = "list" /\ result[i] = Ok /\ Len(listed[i]) = 1

\* C19: list, edit, archive and remove decide their outcome on one
\* observation of the category's reference: whatever a concurrent remove,
\* archive or add does in the middle of the call, the call returns what it
\* could return had it observed the reference once (success, the "No memos
\* found" no-op, or the rejection of its own arguments or configuration).
C19_SingleObservation ==
    \A i \in Returned :
        op[i] \in {"list", "edit", "archive", "remove"} =>
            result[i] \in {Ok, Absent, InvalidCategory(cat[i]), MissingIdentity}

\* The memos are the chain from its root to the commit oid, in that order.
IsChainTo(log, oid) ==
    /\ Len(log) >= 1
    /\ log[Len(log)].oid = oid
    /\ \A k \in 1..Len(log) :
          /\ HasCommit(log[k].oid)
          /\ log[k].message = FindCommit(log[k].oid).message
          /\ FindCommit(log[k].oid).parent =
                IF k = 1 THEN NoOid ELSE log[k - 1].oid

\* C20: the memos a list prints are the complete chain, root to head, of
\* the one oid the reference held when the revwalk was pushed, during the
\* call; commits added after that are not among them.
C20_ListIsOneChain ==
    [][\A i \in Calls :
         /\ (pc[i] = "list_push" /\ pc'[i] = "list_walk") =>
               head'[i] = memo[cat[i]] /\ head'[i] # NoOid
         /\ (pc[i] = "list_walk" /\ Moved(i)) =>
               /\ pc'[i] = "done" /\ result'[i] = Ok
               /\ IsChainTo(listed'[i], head[i])
               /\ Oids(listed'[i]) \subseteq { OidOf(c) : c \in odb }]_vars

\* A list has printed one memo although the category holds two by now: an
\* add that was in flight moved the reference after the list resolved it.
C20_Witness ==
    /\ Returned = 1..3
    /\ op[1] = "add" /\ op[2] = "add" /\ op[3] = "list"
    /\ \A i \in 1..3 : result[i].ok /\ cat[i] = cat[1]
    /\ Len(listed[3]) = 1
    /\ Len(ListMemos(cat[3])) = 2

\* The commits no reference reaches.
Reachable ==
    UNION { { RevWalk(memo[c])[k] : k \in 1..Len(RevWalk(memo[c])) } \cup
            { RevWalk(archive[c])[k] : k \in 1..Len(RevWalk(archive[c])) } :
            c \in Categories }
Unreferenced == { c \in odb : OidOf(c) \notin Reachable }

\* C21: no step of an add other than the one it succeeds with changes a
\* reference: an add that returns an error (invalid category, user.name
\* unset, a failure of the store, the last attempt lost) or that stops
\* between two attempts has left the references as they were; what it may
\* leave is commits no reference reaches.
C21_FailedAddLeavesReferences ==
    [][\A i \in Calls :
         (Moved(i) /\ op'[i] = "add" /\ ~(pc'[i] = "done" /\ result'[i].ok)) =>
            memo' = memo /\ archive' = archive]_vars

\* An add has used up its attempts on a locked store and returned the
\* error; the commit it wrote is in the object database and no reference
\* exists.
C21_Witness ==
    \E i \in Returned :
        /\ op[i] = "add" /\ ~result[i].ok /\ result[i].code = "Locked"
        /\ attempt[i] = MaxAttempts - 1
        /\ memo[cat[i]] = NoOid
        /\ Unreferenced # {}

IsPrefix(s, t) == Len(s) <= Len(t) /\ \A k \in 1..Len(s) : s[k] = t[k]
ListsDone == { i \in Returned : op[i] = "list" /\ result[i].ok }
AddsDone == { i \in Returned : op[i] = "add" /\ result[i].ok }

\* C22: with adds as the only commands that change the category, what a
\* list that has returned printed is a prefix of what any list resolving
\* the reference afterwards prints, and the memo of every add that has
\* returned successfully is among the memos of any such later list.
C22_AppendOnlyLog ==
    [][\A j \in Calls :
         /\ (StartStep(j) /\ op'[j] = "list" /\ pc'[j] = "done") =>
               /\ AddsDone = {}
               /\ \A i \in ListsDone : listed[i] = <<>>
         /\ (pc[j] = "list_push" /\ Moved(j)) =>
               /\ pc'[j] = "list_walk"
               /\ \A i \in ListsDone : IsPrefix(listed[i], Memos(head'[j]))
               /\ \A i \in AddsDone : newOid[i] \in Oids(Memos(head'[j]))
         /\ (pc[j] = "list_walk" /\ Moved(j)) =>
               /\ result'[j] = Ok
               /\ listed'[j] = Memos(head[j])]_vars

\* A list printed one memo; after another add, a later list printed two.
C22_Witness ==
    \E i, j \in ListsDone :
        /\ i < j
        /\ Len(listed[i]) = 1 /\ Len(listed[j]) = 2
        /\ listed[i][1] = listed[j][1]

\* C23: with adds only, the history does not fork: no two adds that
\* returned successfully recorded the same commit or commits with the same
\* parent (no parent included), i.e. for each value of the reference at
\* most one update expecting it went through.
C23_NoFork ==
    \A i, j \in AddsDone :
        i # j =>
          /\ newOid[i] # newOid[j]
          /\ FindCommit(newOid[i]).parent # FindCommit(newOid[j]).parent

\* Two adds that both lost a race for the reference, one of them twice,
\* have returned successfully.
C23_Witness ==
    \E i, j \in AddsDone : i # j /\ attempt[i] >= 1 /\ attempt[j] >= 2

\* C24: when as many writers as add_memo has attempts add to one category
\* at once, with nothing else touching the reference, no writer returns
\* an error in any interleaving: each succeeds on one of its attempts, and
\* when all have returned the category lists one memo per writer.
C24_FiveWritersAllSucceed ==
    /\ \A i \in Returned : result[i].ok /\ attempt[i] < MaxAttempts
    /\ Returned = Calls =>
          /\ Len(ListMemos(AppendCategory)) = ParallelWriters
          /\ Oids(ListMemos(AppendCategory)) = { newOid[i] : i \in Calls }

\* All writers have returned, one of them on its last attempt after
\* losing to each of the others.
C24_Witness ==
    /\ Returned = Calls
    /\ Cardinality(Calls) = ParallelWriters
    /\ \E i \in Calls : attempt[i] = MaxAttempts - 1 /\ result[i].ok

\* The oids of the chain an oid heads.
ChainOids(oid) == { RevWalk(oid)[k] : k \in 1..Len(RevWalk(oid)) }

\* C25: the object database only grows: no step of add, edit, archive,
\* remove or list changes or drops a commit, and a remove that succeeds
\* deletes the reference only, so every commit of the removed chain can
\* still be found by its oid.
C25_ObjectsAreKept ==
    [][/\ odb \subseteq odb'
       /\ \A i \in Calls :
            (pc[i] = "remove_delete" /\ Moved(i) /\ result'[i].ok) =>
               /\ memo'[cat[i]] = NoOid
               /\ \A o \in ChainOids(memo[cat[i]]) :
                     \E c \in odb' : OidOf(c) = o /\ c \in odb]_vars

\* A category of two memos has been removed; its commits are in the object
\* database and no reference reaches them.
C25_Witness ==
    \E i \in Returned :
        /\ op[i] = "remove" /\ result[i] = Ok
        /\ memo[cat[i]] = NoOid
        /\ Cardinality(Unreferenced) >= 2

\* Following parent links from an oid ends at a commit with no parent
\* within n commits, all of them in the object database.
RECURSIVE RootWithin(_, _)
RootWithin(oid, n) ==
    IF oid = NoOid THEN TRUE
    ELSE IF n = 0 \/ ~HasCommit(oid) THEN FALSE
    ELSE RootWithin(FindCommit(oid).parent, n - 1)

\* C26: in every reachable state every reference, live or archived, holds
\* the oid of a commit in the object database, the parent of every commit
\* in the object database is in the object database, and the parent links
\* from every reference end at a commit without parent (nothing dangles,
\* nothing cycles).
C26_ChainsAreWellFormed ==
    /\ \A c \in Categories :
          /\ memo[c] # NoOid =>
                HasCommit(memo[c]) /\ RootWithin(memo[c], Cardinality(odb))
          /\ archive[c] # NoOid =>
                HasCommit(archive[c]) /\ RootWithin(archive[c], Cardinality(odb))
    /\ \A n \in odb :
          /\ n.parent # NoOid => HasCommit(n.parent)
          /\ RootWithin(OidOf(n), Cardinality(odb))

\* A live reference and an archived one, with at least two commits in the
\* object database.
C26_Witness ==
    \E c, d \in Categories :
        /\ memo[c] # NoOid /\ archive[d] # NoOid
        /\ \E i \in Returned : op[i] = "archive" /\ result[i] = Ok
        /\ Cardinality(odb) >= 2

\* C27: a command on category c changes the references of c only: a step
\* of any call leaves refs/memo/<d> and refs/archive/<d> of every other
\* category d as they were, and only archive changes an archive reference.
C27_OtherCategoriesUntouched ==
    [][\A i \in Calls :
         Moved(i) =>
           /\ \A d \in Categories \ {cat'[i]} :
                 memo'[d] = memo[d] /\ archive'[d] = archive[d]
           /\ op'[i] # "archive" => archive' = archive]_vars

\* One category has a memo while another has been archived, each by its
\* own commands.
C27_Witness ==
    \E c, d \in Categories :
        /\ c # d
        /\ archive[d] # NoOid /\ memo[d] = NoOid
        /\ memo[c] # NoOid /\ archive[c] = NoOid
        /\ \E i \in Returned : op[i] = "archive" /\ cat[i] = d /\ result[i] = Ok

Elems(seq) == { seq[k] : k \in 1..Len(seq) }
Live == { c \in Categories : memo[c] # NoOid }
Archived == { c \in Categories : archive[c] # NoOid }

\* C28: in every state list_categories prints exactly the categories whose
\* live reference is present and list_archive_categories exactly those
\* whose archive reference is present, each once and in ascending order;
\* a category just archived is in the archive listing and not in the live
\* one, and a remove takes its category out of the live listing and
\* leaves the archive listing as it was.
C28_CategoryListings ==
    /\ [](/\ Elems(ListCategories) = Live
          /\ Len(ListCategories) = Cardinality(Live)
          /\ Elems(ListArchiveCategories) = Archived
          /\ Len(ListArchiveCategories) = Cardinality(Archived)
          /\ \A k, l \in 1..Len(ListCategories) :
                k < l => StrLess(ListCategories[k], ListCategories[l])
          /\ \A k, l \in 1..Len(ListArchiveCategories) :
                k < l => StrLess(ListArchiveCategories[k], ListArchiveCategories[l])
          /\ {<<"a">>, <<"b">>} \subseteq Live =>
                ListCategories = << <<"a">>, <<"b">> >>)
    /\ [][\A i \in Calls :
            /\ (ArchiveStep(i) /\ result'[i].ok) =>
                  /\ cat[i] \in Elems(ListArchiveCategories')
                  /\ cat[i] \notin Elems(ListCategories')
            /\ (pc[i] = "remove_delete" /\ Moved(i) /\ result'[i].ok) =>
                  /\ cat[i] \notin Elems(ListCategories')
                  /\ ListArchiveCategories' = ListArchiveCategories]_vars

\* Category b was given a memo before category a; a is listed first, and
\* nothing is listed as archived.
C28_Witness ==
    /\ op[1] = "add" /\ cat[1] = <<"b">> /\ result[1].ok
    /\ op[2] = "add" /\ cat[2] = <<"a">> /\ result[2].ok
    /\ ListCategories = << <<"a">>, <<"b">> >>
    /\ ListArchiveCategories = <<>>

\* C29: grep_memos gives git log exactly the names of the live references
\* present at the call, never an archive reference and never the name of
\* a removed or archived category; with no live reference it returns Ok
\* with "No memos found" and does not run git.
C29_GrepLiveReferencesOnly ==
    \A pattern \in Messages :
        LET g == GrepMemos(pattern)
        IN IF Live = {}
           THEN g.ok /\ g.text = "No memos found" /\ g.git = <<>>
           ELSE /\ Len(g.git) = 1
                /\ g.git[1].options = <<"log", "--format=%s", "--grep", pattern>>
                /\ g.git[1].refs = { RefName(c) : c \in Live }
                /\ \A c \in Categories : ArchiveRefName(c) \notin g.git[1].refs

\* One category is live while another has been archived: git log is run
\* on the live reference alone.
C29_Witness ==
    \E c, d \in Categories :
        /\ c # d /\ Live = {c} /\ Archived = {d}
        /\ GrepMemos("m1").git # <<>>

\* C30: the commit an attempt of add builds is determined by the message,
\* the signature and the parent it read; message and signature are fixed
\* before the loop and stay as they are while time passes, so an attempt
\* that reads the same head as an earlier one builds the same commit with
\* the same oid, and writing a commit that is already in the object
\* database leaves the object database as it was.
C30_SameContentSameNode ==
    [][\A i \in Calls :
         /\ pc[i] \in {"add_read", "add_commit"} =>
               sig'[i] = sig[i] /\ msg'[i] = msg[i] /\ cat'[i] = cat[i]
         /\ (pc[i] = "add_commit" /\ Moved(i)) =>
               LET node == NewCommit(msg[i], sig[i], head[i])
               IN /\ odb' \in {odb, odb \cup {node}}
                  /\ node \in odb => odb' = odb
                  /\ (pc'[i] = "done" /\ result'[i].ok) =>
                        /\ node \in odb'
                        /\ newOid'[i] = OidOf(node)
                        /\ memo'[cat[i]] = OidOf(node)]_vars

\* An add is about to commit again, at a later time than its signature
\* says, the commit its earlier attempt wrote before the store failed.
C30_Witness ==
    \E i \in Calls :
        /\ pc[i] = "add_commit" /\ attempt[i] >= 1
        /\ NewCommit(msg[i], sig[i], head[i]) \in odb
        /\ clock > sig[i].when

\* C31: for a single writer with valid categories and user.name set, each
\* add, edit, remove and archive of commands.rs returns what the command
\* of main.rs returns on the same repository (success, or the "No memos
\* found" no-op) and leaves the same references, live and archived, and
\* the same commits.
C31_MainAgreesWithCommands ==
    [][\A i \in Calls :
         (Moved(i) /\ pc'[i] = "done") =>
            LET main == MainCommand(op'[i], cat'[i], msg'[i])
            IN /\ result'[i].ok = main.result.ok
               /\ result'[i].text = main.result.text
               /\ memo' = main.memo
               /\ archive' = main.archive
               /\ odb' = main.odb]_vars

\* With user.email set as well, the commands of the two files agree.
AgreeWithEmailSet ==
    [][userEmail # NoEmail =>
         \A i \in Calls :
           (Moved(i) /\ pc'[i] = "done") =>
              LET main == MainCommand(op'[i], cat'[i], msg'[i])
              IN /\ result'[i].ok = main.result.ok
                 /\ result'[i].text = main.result.text
                 /\ memo' = main.memo
                 /\ archive' = main.archive
                 /\ odb' = main.odb]_vars

====
